---- MODULE Spec2Model ----
(***************************************************************************)
(* Session snapshot and watch subsystem of snek (src/src/watcher.rs,       *)
(* src/src/session_io.rs, src/src/snapshot.rs, src/src/lsp/backend.rs).    *)
(*                                                                         *)
(* The watch loop is a single task that alternates between receiving a raw *)
(* filesystem event and, after an idle window, flushing the pending        *)
(* buckets.  The filesystem, the notify registrations and the event        *)
(* channel are part of the state; an inline-completion request is a second *)
(* process that reads the snapshot store.                                  *)
(***************************************************************************)
EXTENDS Integers, Sequences, FiniteSets, TLC

(***************************************************************************)
(* Bounds of the model.                                                    *)
(***************************************************************************)
\* filesystem operations performed by the environment in one behaviour
MaxFsOps == 2
\* capacity of the event channel (mpsc::channel(100) in the program)
ChanCap == 2

(***************************************************************************)
(* Paths.  A path is a sequence of components and a component is a pair    *)
(* <<stem, extension>>, so that file_name(), parent(), extension() and     *)
(* starts_with() of std::path::Path are structural.                        *)
(***************************************************************************)
D(name) == <<name, "">>
F(stem, ext) == <<stem, ext>>
Join(p, c) == Append(p, c)
FileName(p) == p[Len(p)]
Parent(p) == SubSeq(p, 1, Len(p) - 1)
Extension(p) == p[Len(p)][2]
StartsWith(p, base) == Len(base) <= Len(p) /\ SubSeq(p, 1, Len(base)) = base

Sessions == {"s1", "s2"}
SnekRoot == <<D("ws"), D(".snek")>>
ActivePath == Join(SnekRoot, F("active", "json"))
\* the relative path an active.json that names session s holds
RelPath(s) == <<D("sessions"), D(s)>>
SessionDir(s) == SnekRoot \o RelPath(s)
SessionJsonPath(dir) == Join(dir, F("session", "json"))
SnippetsPath(dir) == Join(dir, F("code_snippets", "json"))
ContextDir(dir) == Join(dir, D("context"))
SessionDirs == {SessionDir(s) : s \in Sessions}
SessionOf(dir) == CHOOSE s \in Sessions : SessionDir(s) = dir

\* markdown notes of a session that the model tracks the content of
MdStems == {"a"}
MdPath(s, m) == Join(ContextDir(SessionDir(s)), F(m, "md"))
MdPaths == {MdPath(s, m) : s \in Sessions, m \in MdStems}
\* source files outside the session directories
SrcA == <<D("ws"), F("a", "rs")>>
SrcJ == <<D("ws"), F("code_snippets", "json")>>
SrcPaths == {SrcA, SrcJ}
\* files that are never read, only changed: a file named code_snippets.json
\* and a text file inside the notes directory
NotesJson(s) == Join(ContextDir(SessionDir(s)), F("code_snippets", "json"))
NotesTxt(s) == Join(ContextDir(SessionDir(s)), F("n", "txt"))
\* a markdown file one directory below context/
NestedMd(s) == Join(Join(ContextDir(SessionDir(s)), D("sub")), F("b", "md"))
\* every file under a context/ directory that the filesystem can hold
NotePaths == MdPaths \cup {NotesTxt("s1"), NestedMd("s1")}
TouchPaths == {NotesJson("s1"), SnippetsPath(SessionDir("s1")), NestedMd("s1")}

\* every tracked file starts with content "c1"; a write leaves "c2", removes
\* the file, or leaves a file that exists and that read_to_string fails on
Absent == "absent"
Unreadable == "unreadable"
Written == {"c2", Absent, Unreadable}
\* what the environment writes at each path
WrittenAt(p) ==
  IF p = SrcA \/ p \in {MdPath("s1", m) : m \in MdStems} THEN Written
  ELSE IF p \in SrcPaths THEN {"c2", Absent}
  ELSE {"c2"}

(***************************************************************************)
(* URIs.  A snippet's uri is a string; Url::parse and to_file_path map it  *)
(* to a local path.  A uri is modelled by its scheme, its spelling and the *)
(* path it decodes to: two spellings of one path are two different keys.   *)
(***************************************************************************)
UriA == [scheme |-> "file", form |-> "plain", path |-> SrcA]
UriA2 == [scheme |-> "file", form |-> "pct", path |-> SrcA]
UriJ == [scheme |-> "file", form |-> "plain", path |-> SrcJ]
UriHttp == [scheme |-> "http", form |-> "plain", path |-> SrcA]
Uris == {UriA, UriA2, UriJ, UriHttp}
\* Url::parse(uri).ok().and_then(|u| u.to_file_path().ok()): a set of 0 or 1 path
ToFilePath(uri) == IF uri.scheme = "file" THEN {uri.path} ELSE {}

Snippet(u) == [uri |-> u]
\* the snippet lists a session starts with, and those written later
ListAJ == <<Snippet(UriA), Snippet(UriJ)>>
ListA == <<Snippet(UriA)>>
ListDup == <<Snippet(UriA), Snippet(UriA)>>
ListMixed == <<Snippet(UriA2), Snippet(UriHttp), Snippet(UriA)>>
WrittenLists == {ListA, ListMixed}
\* what the environment leaves in the code_snippets.json of each session
SnippetsWritten(s) ==
  IF s = "s1"
    THEN {[st |-> "ok", list |-> l] : l \in WrittenLists}
         \cup {[st |-> "absent", list |-> <<>>], [st |-> "malformed", list |-> <<>>]}
    ELSE {[st |-> "absent", list |-> <<>>], [st |-> "malformed", list |-> <<>>]}
SnippetsOk(l) == [st |-> "ok", list |-> l]
SnippetsAbsent == [st |-> "absent", list |-> <<>>]
SnippetsMalformed == [st |-> "malformed", list |-> <<>>]

\* session.json: missing, unparsable, or the fields load_snapshot copies
SessionMissing == [st |-> "missing", id |-> "", version |-> 0, max_tokens |-> 0]
SessionMalformed == [st |-> "malformed", id |-> "", version |-> 0, max_tokens |-> 0]
SessionOk(s, v) ==
  [st |-> "ok", id |-> s, version |-> v, max_tokens |-> IF v = 1 THEN 2000 ELSE 800]
SessionVersions == {1, 2}
\* what the environment leaves in the session.json of each session
SessionWritten(s) ==
  IF s = "s1" THEN {SessionOk(s, 2), SessionMalformed}
  ELSE {SessionOk(s, 2), SessionMissing, SessionMalformed}

VARIABLES
  \* ---- filesystem
  activeJson,       \* content of active.json: a session name, "bad", or Absent
  sessionJson,      \* [Sessions -> SessionOk(..) or SessionMissing or SessionMalformed]
  snippetsJson,     \* [Sessions -> content of code_snippets.json]
  mdFile,           \* [NotePaths -> content, Absent or Unreadable]
  srcFile,          \* [SrcPaths -> content, Absent or Unreadable]
  fsOps,            \* number of filesystem operations so far
  \* ---- notify watcher and channel
  registered,       \* set of [path, recursive] registrations
  rx,               \* the channel: a sequence of events, each a sequence of paths
  \* ---- watch loop
  pc,               \* "select", "switch", "reload", "md", "code"
  sleepDone,        \* the sleep(debounce_duration) of this loop iteration has completed
  session_dir,
  watched_files,
  pending_session_switch,
  pending_snippets_reload,
  pending_markdown_updates,
  pending_code_updates,
  \* ---- snapshot store
  snapshot,         \* the published snapshot (ArcSwap cell)
  \* ---- inline-completion request
  req,
  \* ---- observers
  lastStored,       \* the last value handed to ArcSwap::from_pointee / store()
  quiet,            \* a full debounce window has passed since the last event or flush
  windowCode,       \* [SrcPaths -> raw events classified as source in this window]
  flush,            \* what the flush in progress or just finished started with and did
  \* ---- DocumentStore
  active_doc,       \* NoDocument, or [uri, language_id, text]
  doc_call,         \* NoCall, or the get_context call in progress and its result
  doc_hist,         \* the did_open / did_close calls made so far, in brief
  \* ---- build_messages
  extraction        \* the last snippet extraction: its inputs and its result

fsVars == <<activeJson, sessionJson, snippetsJson, mdFile, srcFile, fsOps>>
loopVars == <<pc, sleepDone, session_dir, watched_files, pending_session_switch,
              pending_snippets_reload, pending_markdown_updates, pending_code_updates>>
obsVars == <<lastStored, quiet, windowCode, flush>>
docVars == <<active_doc, doc_call, doc_hist, extraction>>
watchVars == <<fsVars, registered, rx, loopVars, snapshot, req, obsVars>>
vars == <<watchVars, docVars>>

(***************************************************************************)
(* HashMap helpers.                                                        *)
(***************************************************************************)
EmptyMap == <<>>
MapInsert(m, k, v) == [x \in (DOMAIN m) \cup {k} |-> IF x = k THEN v ELSE m[x]]
MapRemove(m, k) == [x \in (DOMAIN m) \ {k} |-> m[x]]

(***************************************************************************)
(* Filesystem reads.                                                       *)
(***************************************************************************)
\* what the filesystem holds at a notes or source path
FileState(p) ==
  IF p \in NotePaths THEN mdFile[p]
  ELSE IF p \in SrcPaths THEN srcFile[p]
  ELSE Absent
\* std::fs::read_to_string(path) for a notes or source file; Absent is Err
ReadToString(p) == IF FileState(p) = Unreadable THEN Absent ELSE FileState(p)
\* Path::exists()
Exists(p) ==
  IF p = ActivePath THEN activeJson # Absent
  ELSE IF \E s \in Sessions : p = SnippetsPath(SessionDir(s))
    THEN snippetsJson[SessionOf(Parent(p))].st # "absent"
  ELSE IF \E s \in Sessions : p = ContextDir(SessionDir(s)) THEN TRUE
  ELSE FileState(p) # Absent

(***************************************************************************)
(* snapshot.rs                                                             *)
(***************************************************************************)
DefaultMaxTokens == 1600
\* ContextSnapshot::default()
DefaultSnapshot ==
  [session_id |-> "default", version |-> 0, max_tokens |-> DefaultMaxTokens,
   session_dir |-> <<>>, code_snippets |-> <<>>,
   markdown_cache |-> EmptyMap, file_cache |-> EmptyMap]

(***************************************************************************)
(* session_io.rs                                                           *)
(***************************************************************************)
\* a resolve_active_session that falls back to the first session's directory
ResolveActiveSessionWithFallback ==
  IF activeJson \in {"bad", Absent}
    THEN [ok |-> TRUE, dir |-> SnekRoot \o RelPath("s1")]
    ELSE [ok |-> TRUE, dir |-> SnekRoot \o RelPath(activeJson)]

\* resolve_active_session(snek_root): read_to_string and serde_json::from_str
\* both propagate their error with `?`
ResolveActiveSession ==
  IF activeJson \in {"bad", Absent}
    THEN [ok |-> FALSE, dir |-> <<>>]
    ELSE [ok |-> TRUE, dir |-> SnekRoot \o RelPath(activeJson)]

\* std::fs::read_dir(context_dir): the entries directly in the directory
ReadDir(cdir) == {p \in NotePaths : Parent(p) = cdir /\ FileState(p) # Absent}

\* a markdown_cache loop that takes every readable entry, whatever its extension
LoadMarkdownCacheAnyExtension(dir) ==
  LET files == {p \in ReadDir(ContextDir(dir)) : ReadToString(p) # Absent}
      names == {FileName(p) : p \in files}
  IN [n \in names |-> ReadToString(Join(ContextDir(dir), n))]

\* the markdown_cache loop of load_snapshot: the .md files directly in context/
LoadMarkdownCache(dir) ==
  LET files == {p \in ReadDir(ContextDir(dir)) : Extension(p) = "md"
                                                 /\ ReadToString(p) # Absent}
      names == {FileName(p) : p \in files}
  IN [n \in names |-> ReadToString(Join(ContextDir(dir), n))]

\* a file_cache loop without the contains_key test
RECURSIVE LoadFileCacheRereads(_, _, _)
LoadFileCacheRereads(snips, i, acc) ==
  IF i > Len(snips) THEN acc
  ELSE LET uri == snips[i].uri
           paths == ToFilePath(uri)
           next ==
             IF paths = {} THEN acc
             ELSE LET fp == CHOOSE q \in paths : TRUE
                  IN IF ReadToString(fp) # Absent
                       THEN [cache |-> MapInsert(acc.cache, uri, ReadToString(fp)),
                             reads |-> Append(acc.reads, uri)]
                       ELSE acc
       IN LoadFileCacheRereads(snips, i + 1, next)

\* the file_cache loop of load_snapshot, snippet by snippet: the cache built
\* so far and the uris whose file was read into it, in order
RECURSIVE LoadFileCache(_, _, _)
LoadFileCache(snips, i, acc) ==
  IF i > Len(snips) THEN acc
  ELSE LET uri == snips[i].uri
           paths == ToFilePath(uri)
           next ==
             IF uri \in DOMAIN acc.cache THEN acc
             ELSE IF paths = {} THEN acc
             ELSE LET fp == CHOOSE q \in paths : TRUE
                  IN IF ReadToString(fp) # Absent
                       THEN [cache |-> MapInsert(acc.cache, uri, ReadToString(fp)),
                             reads |-> Append(acc.reads, uri)]
                       ELSE acc
       IN LoadFileCache(snips, i + 1, next)

\* a load_snapshot that takes the limits from Limits::default()
LoadSnapshotDefaultLimits(dir) ==
  LET s == SessionOf(dir)
      session == sessionJson[s]
      code_snippets == IF snippetsJson[s].st = "ok" THEN snippetsJson[s].list ELSE <<>>
      files == LoadFileCache(code_snippets, 1, [cache |-> EmptyMap, reads |-> <<>>])
  IN
  IF session.st # "ok" THEN [ok |-> FALSE, snap |-> DefaultSnapshot, reads |-> <<>>]
  ELSE IF snippetsJson[s].st = "malformed"
    THEN [ok |-> FALSE, snap |-> DefaultSnapshot, reads |-> <<>>]
  ELSE [ok |-> TRUE,
        snap |-> [session_id |-> session.id, version |-> session.version,
                  max_tokens |-> DefaultMaxTokens, session_dir |-> dir,
                  code_snippets |-> code_snippets,
                  markdown_cache |-> LoadMarkdownCache(dir),
                  file_cache |-> files.cache],
        reads |-> files.reads]

\* load_snapshot(session_dir)
LoadSnapshot(dir) ==
  LET s == SessionOf(dir)
      session == sessionJson[s]
      code_snippets == IF snippetsJson[s].st = "ok" THEN snippetsJson[s].list ELSE <<>>
      files == LoadFileCache(code_snippets, 1, [cache |-> EmptyMap, reads |-> <<>>])
  IN
  IF session.st # "ok" THEN [ok |-> FALSE, snap |-> DefaultSnapshot, reads |-> <<>>]
  ELSE IF snippetsJson[s].st = "malformed"
    THEN [ok |-> FALSE, snap |-> DefaultSnapshot, reads |-> <<>>]
  ELSE [ok |-> TRUE,
        snap |-> [session_id |-> session.id, version |-> session.version,
                  max_tokens |-> session.max_tokens, session_dir |-> dir,
                  code_snippets |-> code_snippets,
                  markdown_cache |-> LoadMarkdownCache(dir),
                  file_cache |-> files.cache],
        reads |-> files.reads]

(***************************************************************************)
(* The notify watcher.                                                     *)
(***************************************************************************)
Watch(reg, p, rec) == reg \cup {[path |-> p, recursive |-> rec]}
Unwatch(reg, p) == {r \in reg : r.path # p}
Covered(reg, p) ==
  \E r \in reg : r.path = p \/ (r.recursive /\ StartsWith(p, r.path))
\* the local paths of a snippet list
SnippetPaths(snips) == UNION {ToFilePath(snips[i].uri) : i \in 1..Len(snips)}

(***************************************************************************)
(* watcher.rs: classification of a changed path (watch_loop, recv branch). *)
(***************************************************************************)
Classify(path, sdir, watched) ==
  IF FileName(path) = F("active", "json") /\ Parent(path) = SnekRoot THEN "switch"
  ELSE IF FileName(path) = F("code_snippets", "json") THEN "snippets"
  ELSE IF Extension(path) = "md" /\ StartsWith(path, ContextDir(sdir)) THEN "markdown"
  ELSE IF path \in watched THEN "code"
  ELSE "none"

\* the four pending buckets as one record
Pending ==
  [switch |-> pending_session_switch, reload |-> pending_snippets_reload,
   md |-> pending_markdown_updates, code |-> pending_code_updates]

\* one iteration of `for path in &event.paths`
FoldPath(pend, path, sdir, watched) ==
  LET c == Classify(path, sdir, watched) IN
  IF c = "switch" THEN [pend EXCEPT !.switch = TRUE]
  ELSE IF c = "snippets" THEN [pend EXCEPT !.reload = TRUE]
  ELSE IF c = "markdown" THEN [pend EXCEPT !.md = @ \cup {path}]
  ELSE IF c = "code" THEN [pend EXCEPT !.code = @ \cup {path}]
  ELSE pend

RECURSIVE FoldEvent(_, _, _, _, _)
FoldEvent(pend, paths, i, sdir, watched) ==
  IF i > Len(paths) THEN pend
  ELSE FoldEvent(FoldPath(pend, paths[i], sdir, watched), paths, i + 1, sdir, watched)

(***************************************************************************)
(* watcher.rs: the four update functions.  Each returns what it leaves     *)
(* behind: whether it returned Ok, whether it called store(), the snapshot *)
(* it handed to store(), and the watcher state.  `failing` is the set of   *)
(* paths on which watcher.watch() returns Err during this call.            *)
(***************************************************************************)
\* a store that overwrites the caches of the published snapshot in place
StoreCachesOnly(cur, new) ==
  [cur EXCEPT !.markdown_cache = new.markdown_cache, !.file_cache = new.file_cache]
\* ArcSwap::store: the cell afterwards, given the cell before and the argument
Store(cur, new) == new

\* what one update function did: its result, the argument of its store()
\* call and how many times it called store(), and the loop's state afterwards
Outcome(ok, stored, snap, sdir, watched, reg) ==
  [ok |-> ok, stored |-> stored, stores |-> IF stored THEN 1 ELSE 0, snap |-> snap,
   session_dir |-> sdir, watched_files |-> watched, registered |-> reg]

\* the snippet files of a freshly loaded snapshot that get registered
NewlyWatched(snips, failing) ==
  {fp \in SnippetPaths(snips) : Exists(fp) /\ fp \notin failing}

RECURSIVE UnwatchAll(_, _)
UnwatchAll(reg, paths) ==
  IF paths = {} THEN reg
  ELSE LET q == CHOOSE x \in paths : TRUE
       IN UnwatchAll(Unwatch(reg, q), paths \ {q})

\* switch_session with the store() moved before the watch registrations
SwitchSessionStoresEarly(failing) ==
  LET r == ResolveActiveSession
      reg0 == Unwatch(registered, SnippetsPath(session_dir))
      reg1 == Unwatch(reg0, ContextDir(session_dir))
      reg2 == UnwatchAll(reg1, watched_files)
      ld == LoadSnapshot(r.dir)
      reg3 == Watch(reg2, SnippetsPath(r.dir), FALSE)
      reg4 == Watch(reg3, ContextDir(r.dir), TRUE)
      files == NewlyWatched(ld.snap.code_snippets, failing)
      reg5 == reg4 \cup {[path |-> fp, recursive |-> FALSE] : fp \in files}
  IN
  IF ~r.ok THEN Outcome(FALSE, FALSE, snapshot, session_dir, watched_files, registered)
  ELSE IF r.dir = session_dir
    THEN Outcome(TRUE, FALSE, snapshot, session_dir, watched_files, registered)
  ELSE IF ~ld.ok THEN Outcome(FALSE, FALSE, snapshot, session_dir, {}, reg2)
  ELSE IF Exists(SnippetsPath(r.dir)) /\ SnippetsPath(r.dir) \in failing
    THEN Outcome(FALSE, TRUE, ld.snap, session_dir, {}, reg2)
  ELSE IF ContextDir(r.dir) \in failing
    THEN Outcome(FALSE, TRUE, ld.snap, session_dir, {}, reg3)
  ELSE Outcome(TRUE, TRUE, ld.snap, r.dir, files, reg5)

SwitchSession(failing) ==
  LET r == ResolveActiveSession
      unchanged == Outcome(TRUE, FALSE, snapshot, session_dir, watched_files, registered)
      reg0 == IF Exists(SnippetsPath(session_dir))
                THEN Unwatch(registered, SnippetsPath(session_dir)) ELSE registered
      reg1 == IF Exists(ContextDir(session_dir))
                THEN Unwatch(reg0, ContextDir(session_dir)) ELSE reg0
      reg2 == UnwatchAll(reg1, watched_files)
      ld == LoadSnapshot(r.dir)
      hasSnippets == Exists(SnippetsPath(r.dir))
      reg3 == IF hasSnippets THEN Watch(reg2, SnippetsPath(r.dir), FALSE) ELSE reg2
      hasContext == Exists(ContextDir(r.dir))
      reg4 == IF hasContext THEN Watch(reg3, ContextDir(r.dir), TRUE) ELSE reg3
      files == NewlyWatched(ld.snap.code_snippets, failing)
      reg5 == reg4 \cup {[path |-> fp, recursive |-> FALSE] : fp \in files}
  IN
  IF ~r.ok THEN Outcome(FALSE, FALSE, snapshot, session_dir, watched_files, registered)
  ELSE IF r.dir = session_dir THEN unchanged
  ELSE IF ~ld.ok THEN Outcome(FALSE, FALSE, snapshot, session_dir, {}, reg2)
  ELSE IF hasSnippets /\ SnippetsPath(r.dir) \in failing
    THEN Outcome(FALSE, FALSE, snapshot, session_dir, {}, reg2)
  ELSE IF hasContext /\ ContextDir(r.dir) \in failing
    THEN Outcome(FALSE, FALSE, snapshot, session_dir, {}, reg3)
  ELSE Outcome(TRUE, TRUE, ld.snap, r.dir, files, reg5)

\* reload_code_snippets with `?` on the registration of a source file
ReloadFailsOnWatchError(failing) ==
  LET ld == LoadSnapshot(session_dir)
      new_files == SnippetPaths(ld.snap.code_snippets)
      reg1 == UnwatchAll(registered, watched_files \ new_files)
      wanted == {fp \in new_files : fp \notin watched_files /\ Exists(fp)}
      reg2 == reg1 \cup {[path |-> fp, recursive |-> FALSE] : fp \in wanted \ failing}
  IN
  IF ~ld.ok THEN Outcome(FALSE, FALSE, snapshot, session_dir, watched_files, registered)
  ELSE IF wanted \cap failing # {}
    THEN Outcome(FALSE, FALSE, snapshot, session_dir, watched_files, reg1)
  ELSE Outcome(TRUE, TRUE, ld.snap, session_dir, new_files, reg2)

\* reload_code_snippets without the loop that unwatches the dropped files
ReloadKeepsOldWatches(failing) ==
  LET ld == LoadSnapshot(session_dir)
      new_files == SnippetPaths(ld.snap.code_snippets)
      added == {fp \in new_files : fp \notin watched_files /\ Exists(fp)
                                   /\ fp \notin failing}
      reg2 == registered \cup {[path |-> fp, recursive |-> FALSE] : fp \in added}
  IN
  IF ~ld.ok THEN Outcome(FALSE, FALSE, snapshot, session_dir, watched_files, registered)
  ELSE Outcome(TRUE, TRUE, ld.snap, session_dir, new_files, reg2)

\* a reload_code_snippets that drops the watches of the tracked files before
\* it loads the snapshot
ReloadUnwatchesBeforeLoad(failing) ==
  LET ld == LoadSnapshot(session_dir)
      new_files == SnippetPaths(ld.snap.code_snippets)
      reg1 == UnwatchAll(registered, watched_files)
      added == {fp \in new_files : Exists(fp) /\ fp \notin failing}
      reg2 == reg1 \cup {[path |-> fp, recursive |-> FALSE] : fp \in added}
  IN
  IF ~ld.ok THEN Outcome(FALSE, FALSE, snapshot, session_dir, {}, reg1)
  ELSE Outcome(TRUE, TRUE, ld.snap, session_dir, new_files, reg2)

\* a reload_code_snippets that keeps the file_cache entries published before
ReloadKeepsOldCache(failing) ==
  LET ld == LoadSnapshot(session_dir)
      new_files == SnippetPaths(ld.snap.code_snippets)
      reg1 == UnwatchAll(registered, watched_files \ new_files)
      added == {fp \in new_files : fp \notin watched_files /\ Exists(fp)
                                   /\ fp \notin failing}
      reg2 == reg1 \cup {[path |-> fp, recursive |-> FALSE] : fp \in added}
      merged == [u \in DOMAIN snapshot.file_cache \cup DOMAIN ld.snap.file_cache |->
                   IF u \in DOMAIN ld.snap.file_cache
                     THEN ld.snap.file_cache[u] ELSE snapshot.file_cache[u]]
  IN
  IF ~ld.ok THEN Outcome(FALSE, FALSE, snapshot, session_dir, watched_files, registered)
  ELSE Outcome(TRUE, TRUE, [ld.snap EXCEPT !.file_cache = merged],
               session_dir, new_files, reg2)

ReloadCodeSnippets(failing) ==
  LET ld == LoadSnapshot(session_dir)
      new_files == SnippetPaths(ld.snap.code_snippets)
      reg1 == UnwatchAll(registered, watched_files \ new_files)
      added == {fp \in new_files : fp \notin watched_files /\ Exists(fp)
                                   /\ fp \notin failing}
      reg2 == reg1 \cup {[path |-> fp, recursive |-> FALSE] : fp \in added}
  IN
  IF ~ld.ok THEN Outcome(FALSE, FALSE, snapshot, session_dir, watched_files, registered)
  ELSE Outcome(TRUE, TRUE, ld.snap, session_dir, new_files, reg2)

\* a loop body that drops the entry of a file it cannot read
MarkdownStepDropsUnreadable(snap, path) ==
  IF Exists(path) /\ ReadToString(path) # Absent
    THEN [snap EXCEPT !.markdown_cache = MapInsert(@, FileName(path), ReadToString(path))]
    ELSE [snap EXCEPT !.markdown_cache = MapRemove(@, FileName(path))]

\* the loop body of update_markdown_cache for one path
MarkdownStep(snap, path) ==
  IF Exists(path)
    THEN IF ReadToString(path) # Absent
           THEN [snap EXCEPT !.markdown_cache = MapInsert(@, FileName(path), ReadToString(path))]
           ELSE snap
    ELSE [snap EXCEPT !.markdown_cache = MapRemove(@, FileName(path))]

\* a loop over the changed paths that also counts every update in `version`
RECURSIVE MarkdownFoldBumpsVersion(_, _)
MarkdownFoldBumpsVersion(snap, paths) ==
  IF paths = {} THEN snap
  ELSE LET q == CHOOSE x \in paths : TRUE
       IN MarkdownFoldBumpsVersion([MarkdownStep(snap, q) EXCEPT !.version = @ + 1],
                                   paths \ {q})

RECURSIVE MarkdownFold(_, _)
MarkdownFold(snap, paths) ==
  IF paths = {} THEN snap
  ELSE LET q == CHOOSE x \in paths : TRUE
       IN MarkdownFold(MarkdownStep(snap, q), paths \ {q})

\* an update_markdown_cache that calls store() inside the loop over the paths
UpdateMarkdownCacheStoresPerPath(changed_paths) ==
  [Outcome(TRUE, TRUE, MarkdownFold(snapshot, changed_paths),
           session_dir, watched_files, registered)
     EXCEPT !.stores = 1 + Cardinality(changed_paths)]

UpdateMarkdownCache(changed_paths) ==
  Outcome(TRUE, TRUE, MarkdownFold(snapshot, changed_paths),
          session_dir, watched_files, registered)

\* the inner loop of update_code_cache: the first snippet whose path is `path`
RECURSIVE CodeStep(_, _, _, _)
CodeStep(new, cur, path, i) ==
  IF i > Len(cur.code_snippets) THEN new
  ELSE LET uri == cur.code_snippets[i].uri IN
       IF ToFilePath(uri) = {path}
         THEN IF Exists(path)
                THEN IF ReadToString(path) # Absent
                       THEN [new EXCEPT !.file_cache = MapInsert(@, uri, ReadToString(path))]
                       ELSE new
                ELSE [new EXCEPT !.file_cache = MapRemove(@, uri)]
         ELSE CodeStep(new, cur, path, i + 1)

RECURSIVE CodeFold(_, _, _)
CodeFold(new, cur, paths) ==
  IF paths = {} THEN new
  ELSE LET q == CHOOSE x \in paths : TRUE
       IN CodeFold(CodeStep(new, cur, q, 1), cur, paths \ {q})

UpdateCodeCache(changed_paths) ==
  Outcome(TRUE, TRUE, CodeFold(snapshot, snapshot, changed_paths),
          session_dir, watched_files, registered)

(***************************************************************************)
(* document_store.rs.  A text is a sequence of characters, and a character *)
(* is "a" (one byte of UTF-8), "U" (a character of two bytes), "LF" or     *)
(* "CR"; lengths and offsets of a str are counted in bytes.                *)
(***************************************************************************)
MaxTextLen == 3
Chars == {"a", "U", "LF", "CR"}
Texts == UNION {[1..n -> Chars] : n \in 0..MaxTextLen}
DocUris == {"u1", "u2"}
Min(a, b) == IF a <= b THEN a ELSE b

\* char::len_utf8()
ByteLen(c) == IF c = "U" THEN 2 ELSE 1
\* str::len()
RECURSIVE StrLen(_)
StrLen(t) == IF t = <<>> THEN 0 ELSE ByteLen(Head(t)) + StrLen(Tail(t))

\* str::split_inclusive('\n'): the pieces of t from position i on, each ending
\* with its "LF" except possibly the last; cur is the piece being read
RECURSIVE SplitInclusive(_, _, _)
SplitInclusive(t, i, cur) ==
  IF i > Len(t) THEN (IF cur = <<>> THEN <<>> ELSE <<cur>>)
  ELSE IF t[i] = "LF" THEN <<Append(cur, "LF")>> \o SplitInclusive(t, i + 1, <<>>)
  ELSE SplitInclusive(t, i + 1, Append(cur, t[i]))
\* a piece without its line ending: "LF", or "CR" "LF"
StripLineEnding(piece) ==
  IF piece # <<>> /\ piece[Len(piece)] = "LF"
    THEN LET body == SubSeq(piece, 1, Len(piece) - 1)
         IN IF body # <<>> /\ body[Len(body)] = "CR"
              THEN SubSeq(body, 1, Len(body) - 1) ELSE body
    ELSE piece
\* str::lines()
Lines(t) ==
  LET pieces == SplitInclusive(t, 1, <<>>)
  IN [i \in 1..Len(pieces) |-> StripLineEnding(pieces[i])]

\* str::is_char_boundary(offset)
IsCharBoundary(t, offset) == \E k \in 0..Len(t) : StrLen(SubSeq(t, 1, k)) = offset
\* &t[..offset] and &t[offset..] for an offset on a character boundary
SliceTo(t, offset) ==
  SubSeq(t, 1, CHOOSE k \in 0..Len(t) : StrLen(SubSeq(t, 1, k)) = offset)
SliceFrom(t, offset) ==
  SubSeq(t, 1 + (CHOOSE k \in 0..Len(t) : StrLen(SubSeq(t, 1, k)) = offset), Len(t))

NoDocument == [open |-> FALSE, uri |-> "", language_id |-> "", text |-> <<>>]
NoResult == [kind |-> "none", prefix |-> <<>>, suffix |-> <<>>, language_id |-> ""]
Panicked == [kind |-> "panic", prefix |-> <<>>, suffix |-> <<>>, language_id |-> ""]
NoCall == [pc |-> "idle", uri |-> "", line |-> 0, character |-> 0, result |-> NoResult]
NoHistory == [lastOpen |-> "", closedSince |-> {}]

\* the loop of get_context over the lines, from the line with index i on
RECURSIVE LineOffset(_, _, _, _, _)
LineOffset(lines, i, line, character, offset) ==
  IF i >= Len(lines) THEN offset
  ELSE IF i < line
    THEN LineOffset(lines, i + 1, line, character, offset + StrLen(lines[i + 1]) + 1)
  ELSE offset + Min(character, StrLen(lines[i + 1]))

\* DocumentStore::get_context(uri, line, character)
GetContext(doc, uri, line, character) ==
  IF ~doc.open THEN NoResult
  ELSE IF doc.uri # uri THEN NoResult
  ELSE LET offset == Min(LineOffset(Lines(doc.text), 0, line, character, 0),
                         StrLen(doc.text))
       IN IF ~IsCharBoundary(doc.text, offset) THEN Panicked
          ELSE [kind |-> "some", prefix |-> SliceTo(doc.text, offset),
                suffix |-> SliceFrom(doc.text, offset), language_id |-> doc.language_id]

(***************************************************************************)
(* model.rs, build_messages: the code of one snippet, cut from the cached  *)
(* content of its file.  A file of n lines is <<0, .., n-1>>: line i is i. *)
(***************************************************************************)
MaxLines == 5
FileLines(n) == [i \in 1..n |-> i - 1]
NoExtraction ==
  [cached |-> FALSE, lines |-> <<>>, start_line |-> 0, end_line |-> 0,
   result |-> [kind |-> "none", code |-> <<>>]]

\* an extraction that takes end_line as the last line of the snippet
ExtractCodeInclusiveEnd(cached, lines, start_line, end_line) ==
  LET end == Min(end_line + 1, Len(lines)) IN
  IF ~cached THEN [kind |-> "not_cached", code |-> <<>>]
  ELSE IF start_line < Len(lines)
    THEN IF start_line > end THEN [kind |-> "panic", code |-> <<>>]
         ELSE [kind |-> "code", code |-> SubSeq(lines, start_line + 1, end)]
  ELSE [kind |-> "invalid", code |-> <<>>]

\* the snippet branch of build_messages; &lines[start..end] panics when
\* start > end
ExtractCode(cached, lines, start_line, end_line) ==
  LET end == Min(end_line, Len(lines)) IN
  IF ~cached THEN [kind |-> "not_cached", code |-> <<>>]
  ELSE IF start_line < Len(lines)
    THEN IF start_line > end THEN [kind |-> "panic", code |-> <<>>]
         ELSE [kind |-> "code", code |-> SubSeq(lines, start_line + 1, end)]
  ELSE [kind |-> "invalid", code |-> <<>>]

(***************************************************************************)
(* Initial state: serve_stdio has loaded session s1 and built the store,   *)
(* SessionWatcher::start has registered its watches and spawned the loop.  *)
(***************************************************************************)
IdleRequest ==
  [pc |-> "idle", snap |-> DefaultSnapshot, loaded |-> DefaultSnapshot,
   max_tokens |-> DefaultMaxTokens, md |-> EmptyMap, snips |-> <<>>, fc |-> EmptyMap]
\* no flush has begun since the loop last waited
NoFlush ==
  [active |-> FALSE, quiet |-> FALSE,
   start |-> [switch |-> FALSE, reload |-> FALSE, md |-> {}, code |-> {}],
   window |-> [p \in SrcPaths |-> 0], log |-> <<>>]

\* the source paths on which watcher.watch() may return Err at startup
StartFailChoices == {{}, {SrcJ}}
\* SessionWatcher::start: the registrations and the tracked watch-set
StartWatched(failing) == NewlyWatched(snapshot.code_snippets, failing)
StartRegisteredIn(dir, failing) ==
  LET reg0 == IF Exists(ActivePath) THEN Watch({}, ActivePath, FALSE) ELSE {}
      reg1 == IF Exists(SnippetsPath(dir)) THEN Watch(reg0, SnippetsPath(dir), FALSE) ELSE reg0
      reg2 == IF Exists(ContextDir(dir)) THEN Watch(reg1, ContextDir(dir), TRUE) ELSE reg1
  IN reg2 \cup {[path |-> fp, recursive |-> FALSE] : fp \in StartWatched(failing)}
StartRegistered(failing) == StartRegisteredIn(SessionDir("s1"), failing)

\* the state after startup when serve_stdio found session s1 in active.json
\* and SessionWatcher::start, reading active.json again, found session w
Started(w) ==
  /\ activeJson = w
  /\ sessionJson \in {f \in [Sessions -> {SessionOk(s, 1) : s \in Sessions}
                                         \cup {SessionMissing}] :
                        /\ f["s1"] = SessionOk("s1", 1)
                        /\ f["s2"] \in {SessionOk("s2", 1), SessionMissing}}
  /\ snippetsJson = [s \in Sessions |->
                       IF s = "s1" THEN SnippetsOk(ListAJ) ELSE SnippetsOk(ListDup)]
  /\ mdFile = [p \in NotePaths |-> IF p = NotesTxt("s1") THEN Absent ELSE "c1"]
  /\ srcFile \in {f \in [SrcPaths -> {"c1", Absent}] : f[SrcA] = "c1"}
  /\ fsOps = 0
  /\ snapshot = LoadSnapshot(SessionDir("s1")).snap
  /\ lastStored = snapshot
  /\ session_dir = SessionDir(w)
  /\ \E failing \in StartFailChoices :
       /\ (failing # {} \/ srcFile[SrcJ] = Absent) => sessionJson["s2"].st = "ok"
       /\ watched_files = StartWatched(failing)
       /\ registered = StartRegisteredIn(SessionDir(w), failing)
  /\ rx = <<>>
  /\ pc = "select"
  /\ sleepDone = FALSE
  /\ quiet = FALSE
  /\ pending_session_switch = FALSE
  /\ pending_snippets_reload = FALSE
  /\ pending_markdown_updates = {}
  /\ pending_code_updates = {}
  /\ req = IdleRequest
  /\ windowCode = [p \in SrcPaths |-> 0]
  /\ flush = NoFlush
  /\ active_doc = NoDocument
  /\ doc_call = NoCall
  /\ doc_hist = NoHistory
  /\ extraction = NoExtraction

\* active.json is not rewritten while the program starts
Init == Started("s1")

\* active.json may be rewritten between serve_stdio's read of it and
\* SessionWatcher::start's
InitRace == \E w \in Sessions : Started(w)

(***************************************************************************)
(* The environment: the filesystem changes, and the notify callback sends  *)
(* an event for every changed path that a registration covers              *)
(* (tx.blocking_send: the callback waits while the channel is full).       *)
(***************************************************************************)
CanEmit(paths) ==
  (\E i \in 1..Len(paths) : Covered(registered, paths[i])) => Len(rx) < ChanCap
Emit(paths) ==
  rx' = IF \E i \in 1..Len(paths) : Covered(registered, paths[i])
          THEN Append(rx, paths) ELSE rx
\* a callback that used try_send: the event is discarded when the channel is
\* full, and the filesystem operation is not held back
FsSendTrySend(paths, max) ==
  /\ fsOps < max
  /\ fsOps' = fsOps + 1
  /\ rx' = IF (\E i \in 1..Len(paths) : Covered(registered, paths[i])) /\ Len(rx) < ChanCap
            THEN Append(rx, paths) ELSE rx
  /\ UNCHANGED <<registered, loopVars, snapshot, req, docVars, obsVars>>

\* one filesystem operation on the given paths, of at most max in a behaviour
FsSend(paths, max) ==
  /\ fsOps < max
  /\ CanEmit(paths)
  /\ fsOps' = fsOps + 1
  /\ Emit(paths)
  /\ UNCHANGED <<registered, loopVars, snapshot, req, docVars, obsVars>>

FsStep(paths) == FsSend(paths, MaxFsOps)

WriteActive ==
  \E a \in Sessions \cup {"bad", Absent} :
    /\ FsStep(<<ActivePath>>)
    /\ activeJson' = a
    /\ UNCHANGED <<sessionJson, snippetsJson, mdFile, srcFile>>

WriteSession ==
  \E s \in Sessions :
    /\ FsStep(<<SessionJsonPath(SessionDir(s))>>)
    /\ \E v \in SessionWritten(s) \ {sessionJson[s]} :
         sessionJson' = [sessionJson EXCEPT ![s] = v]
    /\ UNCHANGED <<activeJson, snippetsJson, mdFile, srcFile>>

WriteSnippets ==
  \E s \in Sessions : \E v \in SnippetsWritten(s) :
    /\ FsStep(<<SnippetsPath(SessionDir(s))>>)
    /\ snippetsJson' = [snippetsJson EXCEPT ![s] = v]
    /\ UNCHANGED <<activeJson, sessionJson, mdFile, srcFile>>

WriteMd ==
  \E p \in MdPaths : \E c \in WrittenAt(p) :
    /\ FsStep(<<p>>)
    /\ mdFile' = [mdFile EXCEPT ![p] = c]
    /\ UNCHANGED <<activeJson, sessionJson, snippetsJson, srcFile>>

WriteSrc ==
  \E p \in SrcPaths : \E c \in WrittenAt(p) :
    /\ FsStep(<<p>>)
    /\ srcFile' = [srcFile EXCEPT ![p] = c]
    /\ UNCHANGED <<activeJson, sessionJson, snippetsJson, mdFile>>

\* an event for a file whose content stays as it was (a rewrite with the
\* same bytes, a change of metadata), or for a file the program never reads
Touch ==
  \E p \in TouchPaths :
    /\ FsStep(<<p>>)
    /\ UNCHANGED <<activeJson, sessionJson, snippetsJson, mdFile, srcFile>>

\* a note is renamed, to a .txt file beside it or over the source file a.rs:
\* one event carrying both paths
RenameNote ==
  \E p \in {MdPath("s1", m) : m \in MdStems}, toSource \in BOOLEAN :
    LET to == IF toSource THEN SrcA ELSE NotesTxt("s1") IN
    /\ mdFile[p] # Absent
    /\ FsStep(<<p, to>>)
    /\ mdFile' = IF to = SrcA THEN [mdFile EXCEPT ![p] = Absent]
                  ELSE [mdFile EXCEPT ![p] = Absent, ![to] = mdFile[p]]
    /\ srcFile' = IF to = SrcA THEN [srcFile EXCEPT ![SrcA] = mdFile[p]] ELSE srcFile
    /\ UNCHANGED <<activeJson, sessionJson, snippetsJson>>

(***************************************************************************)
(* watch_loop.  pc = "select" is the tokio::select!; the other values are  *)
(* the positions inside the timeout branch.                                *)
(***************************************************************************)
\* the positions of the timeout branch, in program order
AfterMd(pend) == IF pend.code # {} THEN "code" ELSE "select"
AfterReload(pend) == IF pend.md # {} THEN "md" ELSE AfterMd(pend)
FirstStep(pend) ==
  IF pend.switch THEN "switch"
  ELSE IF pend.reload THEN "reload"
  ELSE AfterReload(pend)

\* entering position n; reaching the select again creates a fresh sleep
Goto(n) ==
  /\ pc' = n
  /\ sleepDone' = IF n = "select" THEN FALSE ELSE sleepDone
  /\ quiet' = IF n = "select" THEN FALSE ELSE quiet

SetPending(pend) ==
  /\ pending_session_switch' = pend.switch
  /\ pending_snippets_reload' = pend.reload
  /\ pending_markdown_updates' = pend.md
  /\ pending_code_updates' = pend.code

\* the number of paths of an event that are classified as a change of source p
CodeHits(ev, p) ==
  Cardinality({i \in 1..Len(ev) :
                 ev[i] = p /\ Classify(ev[i], session_dir, watched_files) = "code"})

\* a receive branch under a sleep created once, outside the loop: the sleep
\* is not restarted by the event
RecvEventKeepsSleep ==
  /\ pc = "select"
  /\ rx # <<>>
  /\ SetPending(FoldEvent(Pending, Head(rx), 1, session_dir, watched_files))
  /\ rx' = Tail(rx)
  /\ pc' = "select"
  /\ sleepDone' = sleepDone
  /\ quiet' = FALSE
  /\ windowCode' = [p \in SrcPaths |-> windowCode[p] + CodeHits(Head(rx), p)]
  /\ flush' = NoFlush
  /\ UNCHANGED <<fsVars, registered, session_dir, watched_files, snapshot, req, docVars,
                 lastStored>>

\* Some(event) = rx.recv(): fold the event's paths into the pending buckets
RecvEvent ==
  /\ pc = "select"
  /\ rx # <<>>
  /\ SetPending(FoldEvent(Pending, Head(rx), 1, session_dir, watched_files))
  /\ rx' = Tail(rx)
  /\ Goto("select")
  /\ windowCode' = [p \in SrcPaths |-> windowCode[p] + CodeHits(Head(rx), p)]
  /\ flush' = NoFlush
  /\ UNCHANGED <<fsVars, registered, session_dir, watched_files, snapshot, req, docVars,
                 lastStored>>

\* debounce_duration passes while the loop waits in the select
Tick ==
  /\ pc = "select"
  /\ ~sleepDone \/ ~quiet
  /\ sleepDone' = TRUE
  /\ quiet' = TRUE
  /\ UNCHANGED <<fsVars, registered, rx, pc, session_dir, watched_files,
                 pending_session_switch, pending_snippets_reload,
                 pending_markdown_updates, pending_code_updates, snapshot, req, docVars,
                 lastStored, windowCode>>
  /\ flush' = NoFlush

\* _ = tokio::time::sleep(debounce_duration): the flush begins
Timeout ==
  /\ pc = "select"
  /\ sleepDone
  /\ flush' = [active |-> TRUE, quiet |-> quiet, start |-> Pending,
                window |-> windowCode, log |-> <<>>]
  /\ windowCode' = [p \in SrcPaths |-> 0]
  /\ Goto(FirstStep(Pending))
  /\ UNCHANGED <<fsVars, registered, rx, session_dir, watched_files,
                 pending_session_switch, pending_snippets_reload,
                 pending_markdown_updates, pending_code_updates, snapshot, req, docVars,
                 lastStored>>

WatchFailChoices ==
  {{}, {SrcA}, {SrcJ}, {SnippetsPath(SessionDir("s2"))}, {ContextDir(SessionDir("s2"))}}

\* what an update function leaves behind, and its entry in the flush log
Apply(o, op, paths) ==
  /\ snapshot' = IF o.stored THEN Store(snapshot, o.snap) ELSE snapshot
  /\ lastStored' = IF o.stored THEN o.snap ELSE lastStored
  /\ session_dir' = o.session_dir
  /\ watched_files' = o.watched_files
  /\ registered' = o.registered
  /\ flush' = [flush EXCEPT !.log =
                 Append(@, [op |-> op, ok |-> o.ok, stored |-> o.stored,
                                 stores |-> o.stores, paths |-> paths,
                                 same |-> o.stored /\ o.snap = snapshot])]

\* a switch branch that leaves pending_session_switch set when the switch
\* failed, to try again at the next timeout
StepSwitchRetriesOnFailure ==
  /\ pc = "switch"
  /\ \E failing \in WatchFailChoices :
       LET o == SwitchSession(failing) IN
       /\ Apply(o, "switch", {})
       /\ pending_markdown_updates' = IF o.ok THEN {} ELSE pending_markdown_updates
       /\ pending_code_updates' = IF o.ok THEN {} ELSE pending_code_updates
       /\ pending_snippets_reload' = IF o.ok THEN FALSE ELSE pending_snippets_reload
       /\ pending_session_switch' = ~o.ok
  /\ Goto("select")
  /\ UNCHANGED <<fsVars, rx, req, docVars, windowCode>>

\* if pending_session_switch { match switch_session(..) {..}; continue }
StepSwitch ==
  /\ pc = "switch"
  /\ \E failing \in WatchFailChoices :
       LET o == SwitchSession(failing) IN
       /\ Apply(o, "switch", {})
       /\ pending_markdown_updates' = IF o.ok THEN {} ELSE pending_markdown_updates
       /\ pending_code_updates' = IF o.ok THEN {} ELSE pending_code_updates
       /\ pending_snippets_reload' = IF o.ok THEN FALSE ELSE pending_snippets_reload
  /\ pending_session_switch' = FALSE
  /\ Goto("select")
  /\ UNCHANGED <<fsVars, rx, req, docVars, windowCode>>

\* the reload branch without pending_code_updates.clear()
StepReloadKeepsCode ==
  /\ pc = "reload"
  /\ \E failing \in WatchFailChoices :
       Apply(ReloadCodeSnippets(failing), "reload", {})
  /\ pending_snippets_reload' = FALSE
  /\ Goto(AfterReload(Pending))
  /\ UNCHANGED <<fsVars, rx, req, docVars, windowCode, pending_session_switch,
                 pending_markdown_updates, pending_code_updates>>

\* if pending_snippets_reload { reload_code_snippets(..); .. }
StepReload ==
  /\ pc = "reload"
  /\ \E failing \in WatchFailChoices :
       Apply(ReloadCodeSnippets(failing), "reload", {})
  /\ pending_snippets_reload' = FALSE
  /\ pending_code_updates' = {}
  /\ Goto(AfterReload([Pending EXCEPT !.code = {}]))
  /\ UNCHANGED <<fsVars, rx, req, docVars, windowCode, pending_session_switch,
                 pending_markdown_updates>>

\* if !pending_markdown_updates.is_empty() { update_markdown_cache(..); clear }
StepMd ==
  /\ pc = "md"
  /\ Apply(UpdateMarkdownCache(pending_markdown_updates), "md", pending_markdown_updates)
  /\ pending_markdown_updates' = {}
  /\ Goto(AfterMd(Pending))
  /\ UNCHANGED <<fsVars, rx, req, docVars, windowCode, pending_session_switch,
                 pending_snippets_reload, pending_code_updates>>

\* the source branch without pending_code_updates.clear()
StepCodeKeepsPending ==
  /\ pc = "code"
  /\ Apply(UpdateCodeCache(pending_code_updates), "code", pending_code_updates)
  /\ Goto("select")
  /\ UNCHANGED <<fsVars, rx, req, docVars, windowCode, pending_session_switch,
                 pending_snippets_reload, pending_markdown_updates,
                 pending_code_updates>>

\* if !pending_code_updates.is_empty() { update_code_cache(..); clear }
StepCode ==
  /\ pc = "code"
  /\ Apply(UpdateCodeCache(pending_code_updates), "code", pending_code_updates)
  /\ pending_code_updates' = {}
  /\ Goto("select")
  /\ UNCHANGED <<fsVars, rx, req, docVars, windowCode, pending_session_switch,
                 pending_snippets_reload, pending_markdown_updates>>

(***************************************************************************)
(* backend.rs: Backend::handle_inline_completion, with ModelClient's       *)
(* complete / build_messages reading the snapshot it was handed.           *)
(***************************************************************************)
\* a request that reads the store again while it builds the prompt
ReqViewReloads(held, cell) == cell
\* the snapshot a request reads from: the guard it holds, not the cell
ReqView(held, cell) == held

nonReqVars == <<fsVars, registered, rx, loopVars, snapshot, obsVars, docVars>>

\* let snapshot = self.snapshot.load();
ReqLoad ==
  /\ req.pc = "idle"
  /\ req' = [IdleRequest EXCEPT !.pc = "loaded", !.snap = snapshot, !.loaded = snapshot]
  /\ UNCHANGED nonReqVars

\* self.model.complete(&snapshot, ..): build_messages reads the limits, the
\* markdown context, the code snippets and their cached files
ReqComplete ==
  /\ req.pc = "loaded"
  /\ req' = [req EXCEPT !.pc = "done",
                        !.max_tokens = ReqView(req.snap, snapshot).max_tokens,
                        !.md = ReqView(req.snap, snapshot).markdown_cache,
                        !.snips = ReqView(req.snap, snapshot).code_snippets,
                        !.fc = ReqView(req.snap, snapshot).file_cache]
  /\ UNCHANGED nonReqVars

\* a request handler that writes the snapshot it held back into the store
ReqReturnStoresBack ==
  /\ req.pc = "done"
  /\ req' = IdleRequest
  /\ snapshot' = Store(snapshot, req.snap)
  /\ UNCHANGED <<fsVars, registered, rx, loopVars, obsVars, docVars>>

\* the response is returned and the guard dropped
ReqReturn ==
  /\ req.pc = "done"
  /\ req' = IdleRequest
  /\ UNCHANGED nonReqVars

Next ==
  \/ WriteActive \/ WriteSession \/ WriteSnippets \/ WriteMd \/ WriteSrc
  \/ Touch \/ RenameNote
  \/ RecvEvent \/ Tick \/ Timeout
  \/ StepSwitch \/ StepReload \/ StepMd \/ StepCode

Spec == Init /\ [][Next]_vars

\* one more touch, of the snippet list of session s1, after the other
\* filesystem operations: with it the environment can offer an event to a
\* channel that is already full
TouchAgain ==
  /\ fsOps = MaxFsOps
  /\ FsSend(<<SnippetsPath(SessionDir("s1"))>>, MaxFsOps + 1)
  /\ UNCHANGED <<activeJson, sessionJson, snippetsJson, mdFile, srcFile>>

\* a step of the spawned watch task
WatchLoopStep ==
  RecvEvent \/ Tick \/ Timeout \/ StepSwitch \/ StepReload \/ StepMd \/ StepCode

\* the watch loop with an environment that sends events of each class:
\* active.json is rewritten, a snippet list or a note is touched, a note is
\* renamed over a watched source file
NextLive == WriteActive \/ Touch \/ RenameNote \/ WatchLoopStep

\* a start with every watch registered, and no session.json in session s2:
\* a switch to s2 fails
InitLive ==
  /\ Init
  /\ sessionJson["s2"].st = "missing"
  /\ srcFile[SrcJ] = "c1"
  /\ watched_files = StartWatched({})

\* the watch loop under a scheduler that keeps running the spawned task and
\* a timer that fires: a step of the loop that stays possible is taken
SpecLive == InitLive /\ [][NextLive]_vars /\ WF_vars(WatchLoopStep)

\* the watch loop after a startup during which active.json may have changed
SpecStart == InitRace /\ [][Next]_vars

NextChan == Next \/ TouchAgain

\* a start with both sessions loadable and every watch registered
InitChan ==
  /\ Init
  /\ sessionJson["s2"].st = "ok"
  /\ srcFile[SrcJ] = "c1"
  /\ watched_files = StartWatched({})

SpecChan == InitChan /\ [][NextChan]_vars

\* the watch loop and its environment, with one filesystem operation fewer,
\* interleaved with the steps of a completion request
NextReq ==
  \/ Next /\ (fsOps' # fsOps => fsOps' < MaxFsOps)
  \/ ReqLoad \/ ReqComplete \/ ReqReturn

SpecReq == Init /\ [][NextReq]_vars

(***************************************************************************)
(* The document store, driven by the editor's notifications and by the     *)
(* completion handler's get_context.                                       *)
(***************************************************************************)
\* did_open(uri, language_id, text)
DidOpen ==
  \E u \in DocUris, t \in Texts :
    /\ doc_call.pc = "idle"
    /\ active_doc' = [open |-> TRUE, uri |-> u, language_id |-> "rust", text |-> t]
    /\ doc_hist' = [lastOpen |-> u, closedSince |-> {}]
    /\ UNCHANGED <<watchVars, doc_call, extraction>>

\* did_change(uri, text)
DidChange ==
  \E u \in DocUris, t \in Texts :
    /\ doc_call.pc = "idle"
    /\ active_doc' = IF active_doc.open /\ active_doc.uri = u
                       THEN [active_doc EXCEPT !.text = t] ELSE active_doc
    /\ UNCHANGED <<watchVars, doc_call, doc_hist, extraction>>

\* did_close(uri)
DidClose ==
  \E u \in DocUris :
    /\ doc_call.pc = "idle"
    /\ active_doc' = IF active_doc.open /\ active_doc.uri = u
                       THEN NoDocument ELSE active_doc
    /\ doc_hist' = [doc_hist EXCEPT !.closedSince = @ \cup {u}]
    /\ UNCHANGED <<watchVars, doc_call, extraction>>

\* a call of get_context(uri, line, character) runs to its end
CallGetContext ==
  \E u \in DocUris, line \in 0..MaxTextLen, character \in 0..(MaxTextLen + 1) :
    /\ doc_call.pc = "idle"
    /\ doc_call' = [pc |-> "returned", uri |-> u, line |-> line, character |-> character,
                    result |-> GetContext(active_doc, u, line, character)]
    /\ UNCHANGED <<watchVars, active_doc, doc_hist, extraction>>

\* the caller has taken the result
ReturnContext ==
  /\ doc_call.pc = "returned"
  /\ doc_call' = NoCall
  /\ UNCHANGED <<watchVars, active_doc, doc_hist, extraction>>

NextDoc == DidOpen \/ DidChange \/ DidClose \/ CallGetContext \/ ReturnContext

\* DocumentStore::new() beside one of the initial filesystem states: the
\* document store reads no file
InitDoc ==
  /\ Init
  /\ sessionJson["s2"].st = "ok"
  /\ srcFile[SrcJ] = "c1"
  /\ watched_files = StartWatched({})

SpecDoc == InitDoc /\ [][NextDoc]_vars

(***************************************************************************)
(* build_messages cutting the code of one snippet.                         *)
(***************************************************************************)
ExtractSnippet ==
  \E cached \in BOOLEAN, n \in 0..MaxLines,
     start_line \in 0..(MaxLines + 1), end_line \in 0..(MaxLines + 1) :
    /\ ~cached => n = 0
    /\ extraction' =
         [cached |-> cached, lines |-> FileLines(n),
          start_line |-> start_line, end_line |-> end_line,
          result |-> ExtractCode(cached, FileLines(n), start_line, end_line)]
    /\ UNCHANGED <<watchVars, active_doc, doc_call, doc_hist>>

NextPrompt == ExtractSnippet

SpecPrompt == Init /\ [][NextPrompt]_vars

(***************************************************************************)
(* Properties.                                                             *)
(***************************************************************************)
Last(seq) == seq[Len(seq)]
\* the operations of a flush log, in order
Ops(log) == [i \in 1..Len(log) |-> log[i].op]
\* a step of the watch loop that ran one update function
UpdateRan == Len(flush'.log) = Len(flush.log) + 1

SnapshotFields ==
  {"session_id", "version", "max_tokens", "session_dir", "code_snippets",
   "markdown_cache", "file_cache"}
\* a snapshot as load_snapshot builds it: every field present, for one session
IsComplete(s) ==
  /\ DOMAIN s = SnapshotFields
  /\ s.session_id \in Sessions
  /\ s.session_dir = SessionDir(s.session_id)
  /\ \E v \in SessionVersions :
       /\ s.version = v
       /\ s.max_tokens = SessionOk(s.session_id, v).max_tokens
  /\ DOMAIN s.file_cache \subseteq {s.code_snippets[i].uri : i \in 1..Len(s.code_snippets)}

\* C1: whatever updates the watch loop has run, succeeding or failing, the
\* store holds a complete snapshot that is exactly the initial one or the last
\* one handed whole to store(): never the empty default, never a mix of two.
C1_StoreHoldsWholeSnapshot ==
  /\ snapshot = lastStored
  /\ IsComplete(snapshot)
  /\ snapshot # DefaultSnapshot

\* a flush in which one update failed and another one stored a snapshot
C1_Witness ==
  /\ pc = "select"
  /\ \E i, j \in 1..Len(flush.log) :
       i < j /\ ~flush.log[i].ok /\ flush.log[j].stored /\ flush.log[j].op = "md"
  /\ F("a", "md") \in DOMAIN snapshot.markdown_cache
  /\ snapshot.markdown_cache[F("a", "md")] = "c2"

\* C2: a session switch or snippet-list reload that fails (active.json
\* unreadable, session.json or code_snippets.json missing or malformed, a
\* watch registration error) performs no store(), and the snapshot published
\* before the attempt is still the published one right after it.
C2_FailedUpdateKeepsSnapshot ==
  [][(UpdateRan /\ Last(flush'.log).op \in {"switch", "reload"} /\ ~Last(flush'.log).ok)
       => (~Last(flush'.log).stored /\ snapshot' = snapshot /\ lastStored' = lastStored)]_vars

\* a switch that failed after active.json was resolved to another session
C2_Witness ==
  /\ pc = "select"
  /\ flush.log # <<>>
  /\ Last(flush.log).op = "switch"
  /\ ~Last(flush.log).ok
  /\ ResolveActiveSession.ok
  /\ ResolveActiveSession.dir # session_dir
  /\ sessionJson[activeJson].st = "ok"

\* C3: a completion request loads the store once and everything it reads
\* afterwards (limits, notes, snippets, cached files) is what that load
\* returned, whatever the watch loop stores while the request is in flight.
C3_RequestReadsItsOwnSnapshot ==
  /\ req.pc # "idle" => req.snap = req.loaded
  /\ req.pc = "done" =>
       /\ req.max_tokens = req.loaded.max_tokens
       /\ req.md = req.loaded.markdown_cache
       /\ req.snips = req.loaded.code_snippets
       /\ req.fc = req.loaded.file_cache

\* a request that finished reading after the store had moved to another session
C3_Witness ==
  /\ req.pc = "done"
  /\ snapshot.session_id # req.loaded.session_id
  /\ snapshot.code_snippets # req.snips

\* the watch loop leaves the switch branch
SwitchRan == pc = "switch" /\ pc' # "switch"

\* C4: when a flush starts with a session switch pending, the switch is the
\* only action performed in that flush, and the pending reload flag, markdown
\* set and source set are discarded rather than applied later.
C4_SwitchDiscardsPending ==
  [][SwitchRan =>
       /\ pc' = "select"
       /\ Ops(flush'.log) = <<"switch">>
       /\ ~pending_snippets_reload'
       /\ pending_markdown_updates' = {}
       /\ pending_code_updates' = {}]_vars

\* the operations a flush that starts with the buckets st performs, in order
ExpectedOps(st) ==
  IF st.switch THEN <<"switch">>
  ELSE (IF st.reload THEN <<"reload">> ELSE <<>>)
       \o (IF st.md # {} THEN <<"md">> ELSE <<>>)
       \o (IF ~st.reload /\ st.code # {} THEN <<"code">> ELSE <<>>)
IsPrefix(a, b) == Len(a) <= Len(b) /\ SubSeq(b, 1, Len(a)) = a

\* C5: a flush that starts with no switch pending runs the reload first when
\* one is pending, then applies no source update at all but still applies the
\* whole pending markdown set; with no reload pending the markdown update
\* comes before the source update.
C5_FlushOrder ==
  ~flush.start.switch =>
    /\ IsPrefix(Ops(flush.log), ExpectedOps(flush.start))
    /\ pc = "select" => Ops(flush.log) = ExpectedOps(flush.start)
    /\ \A i \in 1..Len(flush.log) :
         /\ flush.log[i].op = "md" => flush.log[i].paths = flush.start.md
         /\ flush.log[i].op = "code" => flush.log[i].paths = flush.start.code

\* a finished flush that started with a reload, a note and a source pending
C5_Witness ==
  /\ pc = "select"
  /\ ~flush.start.switch
  /\ flush.start.reload
  /\ flush.start.md # {}
  /\ flush.start.code # {}
  /\ Ops(flush.log) = <<"reload", "md">>
  /\ pending_code_updates = {}

CodeEntries(log) == {i \in 1..Len(log) : log[i].op = "code"}

C7_Debounce ==
  [][/\ (rx # <<>> /\ rx' = Tail(rx)) =>
          /\ pc' = "select"
          /\ ~sleepDone'
          /\ snapshot' = snapshot
          /\ flush'.log = <<>>
     /\ (~flush.active /\ flush'.active) => quiet]_vars

\* a flush that begins after events were received and a quiet window passed
C7_Witness ==
  /\ flush.active
  /\ flush.quiet
  /\ flush.start.md # {}
  /\ flush.window[SrcA] >= 1

\* the watch loop receives the raw event at the head of the channel
Received == rx # <<>> /\ rx' = Tail(rx)

\* C8: a changed path schedules a snippet-list reload only if it is exactly
\* <session_dir>/code_snippets.json of the active session.
C8_ReloadOnlyForActiveSnippetList ==
  [][(Received /\ ~pending_snippets_reload /\ pending_snippets_reload') =>
       \E i \in 1..Len(Head(rx)) : Head(rx)[i] = SnippetsPath(session_dir)]_vars

\* the classification by structural position of C8 and C9
PositionOf(path, sdir, watched) ==
  IF path = ActivePath THEN "switch"
  ELSE IF path = SnippetsPath(sdir) THEN "snippets"
  ELSE IF Extension(path) = "md" /\ StartsWith(path, ContextDir(sdir)) THEN "markdown"
  ELSE IF path \in watched THEN "code"
  ELSE "none"
PutInBucket(pend, path, c) ==
  [switch |-> pend.switch \/ c = "switch",
   reload |-> pend.reload \/ c = "snippets",
   md |-> IF c = "markdown" THEN pend.md \cup {path} ELSE pend.md,
   code |-> IF c = "code" THEN pend.code \cup {path} ELSE pend.code]
RECURSIVE PutAll(_, _, _, _, _)
PutAll(pend, paths, i, sdir, watched) ==
  IF i > Len(paths) THEN pend
  ELSE PutAll(PutInBucket(pend, paths[i], PositionOf(paths[i], sdir, watched)),
              paths, i + 1, sdir, watched)

\* C9: each path of a received event goes into at most one pending bucket,
\* chosen by the priority session-pointer file > snippet-list file > .md file
\* under the active session's notes directory > path in the watch-set, and a
\* path matching none of them changes no bucket.
C9_OneBucketByPriority ==
  [][Received =>
       Pending' = PutAll(Pending, Head(rx), 1, session_dir, watched_files)]_vars

\* C10: when a flush applies markdown and source updates, every pending
\* markdown path lies under the notes directory of the current session
\* directory and every pending source path is in the current watch-set.
C10_PendingMatchesFlushTimeState ==
  /\ pc = "md" =>
       \A p \in pending_markdown_updates : StartsWith(p, ContextDir(session_dir))
  /\ pc = "code" => pending_code_updates \subseteq watched_files

\* the watch loop leaves the markdown branch, having run update_markdown_cache
MarkdownRan == pc = "md" /\ pc' # "md"
\* the markdown entries of no pending path, and every other field, are as before
MarkdownFrame ==
  /\ \A k \in (DOMAIN snapshot.markdown_cache \cup DOMAIN snapshot'.markdown_cache)
              \ {FileName(p) : p \in pending_markdown_updates} :
       /\ k \in DOMAIN snapshot.markdown_cache
       /\ k \in DOMAIN snapshot'.markdown_cache
       /\ snapshot'.markdown_cache[k] = snapshot.markdown_cache[k]
  /\ \A f \in SnapshotFields \ {"markdown_cache"} : snapshot'[f] = snapshot[f]

\* C11: a markdown update for a path publishes a snapshot in which
\* markdown_cache[filename] holds the file's current content if the file
\* exists and has no entry if it does not; nothing else differs from the
\* previously published snapshot.
C11_MarkdownEntryIsCurrent ==
  [][MarkdownRan =>
       /\ \A p \in pending_markdown_updates :
            IF Exists(p)
              THEN /\ FileName(p) \in DOMAIN snapshot'.markdown_cache
                   /\ snapshot'.markdown_cache[FileName(p)] = FileState(p)
              ELSE FileName(p) \notin DOMAIN snapshot'.markdown_cache
       /\ MarkdownFrame]_vars

\* C11 (amended): a markdown update for a path publishes a snapshot in which
\* markdown_cache[filename] holds the file's current content if the file
\* exists and can be read, is as it was in the previously published snapshot
\* if the file exists but cannot be read, and has no entry if the file no
\* longer exists; nothing else differs from the previously published snapshot.
C11_MarkdownUpdate ==
  [][MarkdownRan =>
       /\ \A p \in pending_markdown_updates :
            LET k == FileName(p) IN
            IF ~Exists(p) THEN k \notin DOMAIN snapshot'.markdown_cache
            ELSE IF ReadToString(p) # Absent
              THEN /\ k \in DOMAIN snapshot'.markdown_cache
                   /\ snapshot'.markdown_cache[k] = ReadToString(p)
            ELSE /\ k \in DOMAIN snapshot'.markdown_cache <=> k \in DOMAIN snapshot.markdown_cache
                 /\ k \in DOMAIN snapshot.markdown_cache =>
                      snapshot'.markdown_cache[k] = snapshot.markdown_cache[k]
       /\ MarkdownFrame]_vars

\* a markdown update has run for a note that exists and cannot be read: its
\* entry still holds the content cached before
C11_Witness ==
  /\ pc = "select"
  /\ flush.log # <<>>
  /\ Last(flush.log).op = "md"
  /\ Last(flush.log).paths = {MdPath("s1", "a")}
  /\ mdFile[MdPath("s1", "a")] = Unreadable
  /\ session_dir = SessionDir("s1")
  /\ F("a", "md") \in DOMAIN snapshot.markdown_cache
  /\ snapshot.markdown_cache[F("a", "md")] = "c1"
  /\ snapshot.file_cache # EmptyMap

\* the watch loop leaves the source branch, having run update_code_cache
CodeRan == pc = "code" /\ pc' # "code"
\* the uris of the published snippet list that resolve to the local path p
UrisOf(snap, p) ==
  {snap.code_snippets[i].uri : i \in {j \in 1..Len(snap.code_snippets) :
                                        ToFilePath(snap.code_snippets[j].uri) = {p}}}
\* the entry of uri u after a source update that found its file in state st
Refreshed(u, p) ==
  IF ~Exists(p) THEN u \notin DOMAIN snapshot'.file_cache
  ELSE IF ReadToString(p) # Absent
    THEN u \in DOMAIN snapshot'.file_cache /\ snapshot'.file_cache[u] = ReadToString(p)
  ELSE /\ u \in DOMAIN snapshot'.file_cache <=> u \in DOMAIN snapshot.file_cache
       /\ u \in DOMAIN snapshot.file_cache =>
            snapshot'.file_cache[u] = snapshot.file_cache[u]

\* C12: a source update for a path refreshes the file_cache entry of every
\* snippet uri whose local path is that path (or evicts every one of them if
\* the file is gone), not just the first match.
C12_SourceUpdateRefreshesEveryUri ==
  [][CodeRan =>
       \A p \in pending_code_updates : \A u \in UrisOf(snapshot, p) : Refreshed(u, p)]_vars

\* C13: when a watched source file has been deleted and its change is flushed
\* as a source update, the published snapshot has no file_cache entry for the
\* file's uri, and the other file_cache entries, the markdown_cache and the
\* snippet list are as before.
C13_DeletedSourceIsEvicted ==
  [][(CodeRan /\ \E p \in pending_code_updates : ~Exists(p)) =>
       /\ \A p \in pending_code_updates :
            ~Exists(p) => \A u \in UrisOf(snapshot, p) : u \notin DOMAIN snapshot'.file_cache
       /\ \A u \in (DOMAIN snapshot.file_cache \cup DOMAIN snapshot'.file_cache)
                   \ UNION {UrisOf(snapshot, p) : p \in pending_code_updates} :
            /\ u \in DOMAIN snapshot.file_cache
            /\ u \in DOMAIN snapshot'.file_cache
            /\ snapshot'.file_cache[u] = snapshot.file_cache[u]
       /\ snapshot'.markdown_cache = snapshot.markdown_cache
       /\ snapshot'.code_snippets = snapshot.code_snippets]_vars

\* the watch loop leaves the reload branch, having run reload_code_snippets
ReloadRan == pc = "reload" /\ pc' # "reload"
\* path p has a watch registration of its own
Registered(reg, p) == \E r \in reg : r.path = p

\* C14: when the snippet list no longer references a file it referenced
\* before, then after the flush that reloads the list successfully the
\* watch-set does not contain the file's path, the path is unregistered and
\* the published file_cache has no entry for it.
C14_DroppedFileIsUnwatched ==
  [][(ReloadRan /\ Last(flush'.log).ok) =>
       \A p \in SnippetPaths(snapshot.code_snippets)
                  \ SnippetPaths(snapshot'.code_snippets) :
         /\ p \notin watched_files'
         /\ ~Registered(registered', p)
         /\ \A u \in DOMAIN snapshot'.file_cache : ToFilePath(u) # {p}]_vars

\* session s1, whose list referenced /ws/code_snippets.json, after a
\* successful reload of a list that no longer does, the file still existing
C14_Witness ==
  /\ pc = "select"
  /\ flush.log # <<>>
  /\ Last(flush.log).op = "reload"
  /\ Last(flush.log).ok
  /\ snapshot.session_id = "s1"
  /\ snapshot.code_snippets = ListA
  /\ srcFile[SrcJ] = "c1"
  /\ SrcJ \notin watched_files
  /\ ~Registered(registered, SrcJ)

\* C15: after every successful snippet-list reload and every successful
\* session switch the tracked watch-set equals the set of distinct local
\* paths resolvable from the snippet list of the snapshot just published, by
\* the same rule on the reload path and on the switch path.
C15_WatchSetIsResolvablePaths ==
  [][((ReloadRan \/ SwitchRan) /\ Last(flush'.log).stored) =>
       watched_files' = SnippetPaths(snapshot'.code_snippets)]_vars

\* C16: a required source path left unregistered (its registration failed, or
\* the file did not exist) stays unwatched only until the next snippet-list
\* reload: if it is still referenced and exists at that reload, its
\* registration is attempted again, so it is registered unless watch() fails.
C16_ReloadRetriesRegistration ==
  (pc = "reload" /\ LoadSnapshot(session_dir).ok) =>
    \A p \in SnippetPaths(LoadSnapshot(session_dir).snap.code_snippets) :
      (Exists(p) /\ ~Registered(registered, p)) =>
        Registered(ReloadCodeSnippets({}).registered, p)

\* C17: during a snippet-list reload or a session switch, an error from
\* unregistering or registering a source path never makes the update fail: a
\* reload whose load succeeds, and a switch to another session whose load
\* succeeds, complete whatever set of source registrations fails; they store
\* the loaded snapshot and replace the tracked watch-set.
C17_SourceWatchErrorsAreTolerated ==
  [][/\ (ReloadRan /\ LoadSnapshot(session_dir).ok) =>
          /\ Last(flush'.log).ok
          /\ Last(flush'.log).stored
          /\ snapshot' = LoadSnapshot(session_dir).snap
          /\ watched_files' = SnippetPaths(snapshot'.code_snippets)
     /\ (pc = "switch" /\ ResolveActiveSession.ok
           /\ ResolveActiveSession.dir # session_dir
           /\ LoadSnapshot(ResolveActiveSession.dir).ok) =>
          \A failing \in SUBSET SrcPaths :
            LET o == SwitchSession(failing) IN
            /\ o.ok
            /\ o.stored
            /\ o.snap = LoadSnapshot(ResolveActiveSession.dir).snap
            /\ o.watched_files = {fp \in SnippetPaths(o.snap.code_snippets) :
                                    Exists(fp) /\ fp \notin failing}]_vars

\* a reload completed and stored although a source file that exists could
\* not be registered
C17_Witness ==
  /\ pc = "select"
  /\ flush.log # <<>>
  /\ Last(flush.log).op = "reload"
  /\ Last(flush.log).ok
  /\ Last(flush.log).stored
  /\ \E p \in watched_files : Exists(p) /\ ~Registered(registered, p)

\* C18: load_snapshot(session_dir) fails if session.json is missing or
\* malformed; when it succeeds, session_id, version and limits.max_tokens are
\* the values of session.json; a missing code_snippets.json is no error and
\* gives an empty snippet list.  Stated of load_snapshot on every session
\* directory in every reachable filesystem state, and of the snapshot that a
\* reload or a switch publishes.
C18_LoadSnapshotReadsSessionJson ==
  /\ [](\A s \in Sessions :
          LET ld == LoadSnapshot(SessionDir(s)) IN
          /\ sessionJson[s].st \in {"missing", "malformed"} => ~ld.ok
          /\ ld.ok => /\ ld.snap.session_id = sessionJson[s].id
                      /\ ld.snap.version = sessionJson[s].version
                      /\ ld.snap.max_tokens = sessionJson[s].max_tokens
          /\ (sessionJson[s].st = "ok" /\ snippetsJson[s].st = "absent") =>
               ld.ok /\ ld.snap.code_snippets = <<>>)
  /\ [][((ReloadRan \/ SwitchRan) /\ Last(flush'.log).stored) =>
          LET s == SessionOf(session_dir') IN
          /\ sessionJson[s].st = "ok"
          /\ snapshot'.session_id = sessionJson[s].id
          /\ snapshot'.version = sessionJson[s].version
          /\ snapshot'.max_tokens = sessionJson[s].max_tokens
          /\ snippetsJson[s].st = "absent" => snapshot'.code_snippets = <<>>]_vars

\* a reload has published session s1 from a rewritten session.json and a
\* deleted code_snippets.json
C18_Witness ==
  /\ pc = "select"
  /\ flush.log # <<>>
  /\ Last(flush.log).op = "reload"
  /\ Last(flush.log).stored
  /\ sessionJson["s1"] = SessionOk("s1", 2)
  /\ snippetsJson["s1"].st = "absent"
  /\ snapshot.version = 2
  /\ snapshot.max_tokens = 800
  /\ snapshot.code_snippets = <<>>

\* every event has been received and every pending bucket flushed
Quiescent ==
  /\ pc = "select"
  /\ rx = <<>>
  /\ ~pending_session_switch
  /\ ~pending_snippets_reload
  /\ pending_markdown_updates = {}
  /\ pending_code_updates = {}

\* C19: in every published snapshot, after any file creations, edits,
\* deletions and flushes, every snippet uri that resolves to a local file
\* which exists and can be read has an entry in file_cache.
C19_ReadableReferencedFilesAreCached ==
  Quiescent =>
    \A i \in 1..Len(snapshot.code_snippets) :
      \A p \in ToFilePath(snapshot.code_snippets[i].uri) :
        ReadToString(p) # Absent =>
          snapshot.code_snippets[i].uri \in DOMAIN snapshot.file_cache

\* the distinct uri strings of a snippet list
UriSet(snips) == {snips[i].uri : i \in 1..Len(snips)}

DirectNotes(s) ==
  {p \in NotePaths : /\ Len(p) = Len(ContextDir(SessionDir(s))) + 1
                     /\ StartsWith(p, ContextDir(SessionDir(s)))
                     /\ p[Len(p)][2] = "md"
                     /\ mdFile[p] \notin {Absent, Unreadable}}
\* m has exactly one key per file of files, the file name, holding its content
KeyedByFileName(m, files) ==
  /\ DOMAIN m = {p[Len(p)] : p \in files}
  /\ \A p \in files : m[p[Len(p)]] = mdFile[p]

\* C21: after load_snapshot, markdown_cache has exactly one key per readable
\* regular file with extension .md directly in <session_dir>/context, the key
\* being the file name and the value the file content; files with another
\* extension, and files in a subdirectory of context/, produce no entry.
\* Stated of the markdown_cache loop of load_snapshot on every session
\* directory in every reachable filesystem state, and of the snapshot that a
\* reload or a switch publishes.
C21_MarkdownCacheIsDirectMdFiles ==
  /\ [](\A s \in Sessions :
          KeyedByFileName(LoadMarkdownCache(SessionDir(s)), DirectNotes(s)))
  /\ [][((ReloadRan \/ SwitchRan) /\ Last(flush'.log).stored) =>
          /\ KeyedByFileName(snapshot'.markdown_cache,
                             DirectNotes(SessionOf(session_dir')))
          /\ FileName(NotesTxt("s1")) \notin DOMAIN snapshot'.markdown_cache
          /\ FileName(NestedMd("s1")) \notin DOMAIN snapshot'.markdown_cache]_vars

\* a reload has published session s1 while context/ holds an edited a.md and
\* context/sub/ holds b.md: the cache is a.md alone, with the edited content
C21_Witness ==
  /\ pc = "select"
  /\ flush.log # <<>>
  /\ Last(flush.log).op = "reload"
  /\ Last(flush.log).stored
  /\ mdFile[MdPath("s1", "a")] = "c2"
  /\ mdFile[NestedMd("s1")] = "c1"
  /\ snapshot.session_dir = SessionDir("s1")
  /\ DOMAIN snapshot.markdown_cache = {F("a", "md")}
  /\ snapshot.markdown_cache[F("a", "md")] = "c2"

\* C24: resolve_active_session(root) returns root joined with the relative
\* path named in root/active.json, and fails without returning a directory
\* if active.json is absent or cannot be parsed.  Stated of the function in
\* every reachable filesystem state, and of the session switch that calls it:
\* a switch that cannot resolve fails and leaves the loop's session directory
\* and the published snapshot alone, and a switch that succeeds ends in the
\* directory active.json names.
C24_ResolveActiveSession ==
  [][/\ activeJson \in Sessions =>
          /\ ResolveActiveSession.ok
          /\ ResolveActiveSession.dir
               = <<D("ws"), D(".snek"), D("sessions"), D(activeJson)>>
     /\ activeJson \notin Sessions =>
          /\ ~ResolveActiveSession.ok
          /\ ResolveActiveSession.dir = <<>>
     /\ (SwitchRan /\ activeJson \notin Sessions) =>
          /\ ~Last(flush'.log).ok
          /\ ~Last(flush'.log).stored
          /\ session_dir' = session_dir
          /\ snapshot' = snapshot
     /\ (SwitchRan /\ Last(flush'.log).ok) =>
          /\ activeJson \in Sessions
          /\ session_dir' = SnekRoot \o RelPath(activeJson)]_vars

\* active.json was deleted and the session switch its event asked for failed
C24_Witness ==
  /\ pc = "select"
  /\ activeJson = Absent
  /\ flush.log # <<>>
  /\ Last(flush.log).op = "switch"
  /\ ~Last(flush.log).ok
  /\ session_dir = SessionDir("s1")

\* C30: each update action calls store() at most once.  A successful session
\* switch, a successful snippet-list reload, a markdown update over the whole
\* pending markdown set and a source update over the whole pending source
\* set call it exactly once; a failed switch, a switch that finds the session
\* unchanged and a failed reload call it zero times and leave the published
\* snapshot as it was.
C30_AtMostOneStorePerUpdate ==
  [][UpdateRan =>
       LET e == Last(flush'.log) IN
       /\ e.stores \in {0, 1}
       /\ e.op \in {"md", "code"} => e.stores = 1 /\ e.paths # {}
       /\ e.op = "md" => e.paths = pending_markdown_updates
       /\ e.op = "code" => e.paths = pending_code_updates
       /\ (e.op = "reload" /\ e.ok) => e.stores = 1
       /\ (e.op = "switch" /\ e.ok /\ session_dir' # session_dir) => e.stores = 1
       /\ (e.op = "switch" /\ session_dir' = session_dir) => e.stores = 0
       /\ (e.op \in {"switch", "reload"} /\ ~e.ok) => e.stores = 0
       /\ e.stores = 0 => snapshot' = snapshot]_vars

\* one flush applied a markdown update and then a source update, each with
\* one store()
C30_Witness ==
  /\ pc = "select"
  /\ Ops(flush.log) = <<"md", "code">>
  /\ flush.log[1].stores = 1
  /\ flush.log[2].stores = 1
  /\ snapshot = lastStored

\* the file of path p holds what markdown_cache of snap holds for its name
CachedIsCurrent(snap, p) ==
  /\ FileName(p) \in DOMAIN snap.markdown_cache
  /\ snap.markdown_cache[FileName(p)] = FileState(p)

\* C25: a markdown update for paths whose file content is unchanged since it
\* was cached publishes a snapshot equal in every field to the previously
\* published one, and applying the same markdown update twice in a row gives
\* the same snapshot as applying it once.
C25_MarkdownUpdateIdempotent ==
  [][MarkdownRan =>
       /\ (\A p \in pending_markdown_updates : CachedIsCurrent(snapshot, p)) =>
            /\ snapshot' = snapshot
            /\ \A f \in SnapshotFields : snapshot'[f] = snapshot[f]
       /\ MarkdownFold(snapshot', pending_markdown_updates) = snapshot'
       /\ MarkdownFold(MarkdownFold(snapshot, pending_markdown_updates),
                       pending_markdown_updates)
            = MarkdownFold(snapshot, pending_markdown_updates)]_vars

\* a note was written again with the content the cache already held, and the
\* markdown update for it stored a snapshot equal to the published one
C25_Witness ==
  /\ pc = "select"
  /\ Ops(flush.log) = <<"md">>
  /\ flush.log[1].stores = 1
  /\ flush.log[1].same
  /\ flush.log[1].paths = {MdPath("s1", "a")}
  /\ mdFile[MdPath("s1", "a")] = "c2"
  /\ snapshot.markdown_cache[F("a", "md")] = "c2"

\* C26: only the watch loop calls store() and no request handler does, so
\* every load-clone-modify-store update replaces exactly the snapshot it
\* cloned and no published update is overwritten by a snapshot derived from
\* an older one.  A step that changes the store is an update step of the
\* watch loop; a step of a request leaves the store alone; the store always
\* holds the last value the watch loop stored; and a markdown or source
\* update publishes the snapshot published immediately before with only its
\* own cache changed.
C26_SingleWriter ==
  [][/\ snapshot = lastStored
     /\ snapshot' # snapshot =>
          /\ UpdateRan
          /\ Last(flush'.log).stored
          /\ req' = req
     /\ req' # req => snapshot' = snapshot /\ lastStored' = lastStored
     /\ MarkdownRan =>
          /\ snapshot' = MarkdownFold(lastStored, pending_markdown_updates)
          /\ \A f \in SnapshotFields \ {"markdown_cache"} : snapshot'[f] = lastStored[f]
     /\ CodeRan =>
          /\ snapshot' = CodeFold(lastStored, lastStored, pending_code_updates)
          /\ \A f \in SnapshotFields \ {"file_cache"} : snapshot'[f] = lastStored[f]
     /\ snapshot' = lastStored']_vars

\* while a request held the snapshot it had loaded, one flush published a
\* markdown update and then a source update; the source update kept what the
\* markdown update had published
C26_Witness ==
  /\ req.pc = "done"
  /\ F("a", "md") \in DOMAIN req.snap.markdown_cache
  /\ pc = "select"
  /\ Ops(flush.log) = <<"md", "code">>
  /\ flush.log[1].stores = 1 /\ ~flush.log[1].same
  /\ flush.log[2].stores = 1
  /\ F("a", "md") \notin DOMAIN snapshot.markdown_cache
  /\ snapshot = lastStored

\* the notes of the session whose snapshot is published
PublishedNotes == {MdPath(SessionOf(snapshot.session_dir), m) : m \in MdStems}

\* C27: the watch loop never stops because an update failed: it is always at
\* its select or inside a flush, also after a failed session switch or a
\* failed snippet-list reload, and a later change of a note of the published
\* session is still delivered to it as an event, to be classified, flushed
\* and published.
C27_LoopServesLaterChanges ==
  [][/\ pc' \in {"select", "switch", "reload", "md", "code"}
     /\ (UpdateRan /\ ~Last(flush'.log).ok) => pc' \in {"select", "md", "code"}
     /\ \A p \in PublishedNotes :
          mdFile'[p] # mdFile[p] => /\ Len(rx') = Len(rx) + 1
                                    /\ \E i \in 1..Len(Last(rx')) : Last(rx')[i] = p]_vars

\* C22: file_cache holds the whole content of a referenced file, and the
\* code extracted for a snippet at prompt-build time is exactly the lines
\* with 0-based index i such that start_line <= i < end_line, in order (for
\* start_line 1, end_line 3 on a 5-line file: lines 1 and 2); a snippet whose
\* range starts inside the file and is not reversed does get its code.
C22_ExtractedLines ==
  /\ \A u \in DOMAIN snapshot.file_cache :
       \E fp \in ToFilePath(u) : snapshot.file_cache[u] = srcFile[fp]
  /\ LET x == extraction
         wanted == {i \in 0..(Len(x.lines) - 1) : x.start_line <= i /\ i < x.end_line}
     IN /\ x.result.kind = "code" =>
             /\ Len(x.result.code) = Cardinality(wanted)
             /\ \A k \in 1..Len(x.result.code) :
                  /\ x.start_line + k - 1 \in wanted
                  /\ x.result.code[k] = x.lines[x.start_line + k]
        /\ (x.cached /\ x.start_line < Len(x.lines) /\ x.start_line <= x.end_line) =>
             x.result.kind = "code"

\* start_line 1 and end_line 3 on a file of five lines gave lines 1 and 2
C22_Witness ==
  /\ extraction.cached
  /\ Len(extraction.lines) = 5
  /\ extraction.start_line = 1
  /\ extraction.end_line = 3
  /\ extraction.result.kind = "code"
  /\ extraction.result.code = <<1, 2>>

\* C23: for every snippet, with any start_line and end_line (end_line beyond
\* the file length, start_line beyond the file length, start_line greater
\* than end_line) and any cached content, extracting the code never aborts
\* the request: the range is clamped to the file or reported as invalid.
C23_ExtractionNeverAborts ==
  extraction.cached =>
    /\ extraction.result.kind \in {"code", "invalid"}
    /\ extraction.result.kind = "code" => Len(extraction.result.code) <= Len(extraction.lines)

\* a call of get_context has just run
GetContextRan == doc_call.pc = "idle" /\ doc_call'.pc = "returned"

\* C28: for any sequence of did_open, did_change and did_close calls,
\* get_context(uri, ..) returns a value exactly when the most recent did_open
\* was for that uri and no did_close(uri) followed it; a did_change or
\* did_close for another uri than the active document's changes nothing, and
\* after a did_change on the active uri get_context answers from the new text.
C28_ContextOnlyForActiveDocument ==
  [][/\ GetContextRan =>
          /\ doc_call'.result.kind = "some"
               <=> /\ doc_hist.lastOpen = doc_call'.uri
                   /\ doc_call'.uri \notin doc_hist.closedSince
          /\ doc_call'.result.kind = "some" =>
               /\ doc_call'.result.prefix \o doc_call'.result.suffix = active_doc.text
               /\ doc_call'.result.language_id = active_doc.language_id
     /\ (active_doc' # active_doc /\ doc_hist' = doc_hist) =>
          /\ active_doc.open /\ active_doc'.open
          /\ active_doc'.uri = active_doc.uri
          /\ active_doc'.language_id = active_doc.language_id
     /\ (doc_hist'.lastOpen = doc_hist.lastOpen /\ active_doc.open /\ ~active_doc'.open) =>
          active_doc.uri \in doc_hist'.closedSince]_vars

\* the number of characters of the first n pieces
RECURSIVE PiecesLen(_, _)
PiecesLen(pieces, n) == IF n = 0 THEN 0 ELSE Len(pieces[n]) + PiecesLen(pieces, n - 1)
\* the text from the start of the file up to the cursor: the earlier lines with
\* their line endings, then the first `character` characters of the cursor
\* line, or the line up to its end; the whole text for a line past the last
TextBeforeCursor(text, line, character) ==
  LET pieces == SplitInclusive(text, 1, <<>>) IN
  IF line >= Len(pieces) THEN text
  ELSE SubSeq(text, 1, PiecesLen(pieces, line)
                        + Min(character, Len(StripLineEnding(pieces[line + 1]))))

\* C29: for the active document and any (line, character), get_context
\* returns prefix and suffix such that prefix followed by suffix is the
\* document text, and prefix is the text from the start of the file up to the
\* cursor: all earlier lines with their newlines plus the first `character`
\* characters of the cursor line, a character beyond the line end being
\* clamped to the line end and a line beyond the last line giving the whole
\* text as prefix and an empty suffix.
C29_PrefixIsTextBeforeCursor ==
  (doc_call.pc = "returned" /\ active_doc.open /\ active_doc.uri = doc_call.uri) =>
    /\ doc_call.result.kind = "some"
    /\ doc_call.result.prefix \o doc_call.result.suffix = active_doc.text
    /\ doc_call.result.prefix
         = TextBeforeCursor(active_doc.text, doc_call.line, doc_call.character)

\* C32: if switch_session returns an error (the new session cannot be
\* loaded, or registering its snippet-list file or notes directory fails),
\* the watch registrations and the tracked watch-set are the same as before
\* the attempt, so changes of the still-published old session's snippet list,
\* notes and source files continue to be detected.
C32_FailedSwitchKeepsWatches ==
  [][(SwitchRan /\ ~Last(flush'.log).ok) =>
       /\ registered' = registered
       /\ watched_files' = watched_files
       /\ Covered(registered', SnippetsPath(snapshot'.session_dir))
       /\ \A p \in PublishedNotes : Covered(registered', p)]_vars

\* C33: if a pending session switch resolves to the session directory that
\* is already active, the markdown, source and snippet-list changes recorded
\* in the same debounce window are not lost: the switch step, which ends the
\* flush, leaves them pending for a later flush.
C33_UnchangedSwitchKeepsPending ==
  [][(SwitchRan /\ ResolveActiveSession.ok /\ ResolveActiveSession.dir = session_dir) =>
       /\ pending_markdown_updates' = pending_markdown_updates
       /\ pending_code_updates' = pending_code_updates
       /\ pending_snippets_reload' = pending_snippets_reload]_vars

\* C34: if a snippet-list reload fails during a flush, the source-file
\* changes pending in that flush are not lost: they stay in the pending
\* source set, to be applied by the source update of this flush or of a
\* later one.
C34_FailedReloadKeepsSourceChanges ==
  [][(ReloadRan /\ ~Last(flush'.log).ok) =>
       pending_code_updates' = pending_code_updates]_vars

\* C35: in every reachable state, every path in the tracked watch-set has a
\* watch registration: a path is tracked only if it existed and its
\* registration succeeded, on the startup, session-switch and snippet-reload
\* paths alike.
C35_TrackedPathsAreRegistered ==
  \A p \in watched_files : Registered(registered, p)

\* C38: a failed snippet-list reload changes nothing but the pending flags:
\* the published snapshot, the loop's session directory, the tracked
\* watch-set and every watch registration are the same after it as before.
C38_FailedReloadChangesNothing ==
  [][(ReloadRan /\ ~Last(flush'.log).ok) =>
       /\ snapshot' = snapshot
       /\ lastStored' = lastStored
       /\ session_dir' = session_dir
       /\ watched_files' = watched_files
       /\ registered' = registered
       /\ Last(flush'.log).stores = 0]_vars

\* a reload of a malformed code_snippets.json has failed: the list published
\* before, the tracked file a.rs and its registration are still there
C38_Witness ==
  /\ flush.log # <<>>
  /\ Last(flush.log).op = "reload"
  /\ ~Last(flush.log).ok
  /\ snippetsJson["s1"].st = "malformed"
  /\ session_dir = SessionDir("s1")
  /\ snapshot.code_snippets = ListAJ
  /\ SrcA \in watched_files
  /\ Registered(registered, SrcA)

\* the uris of a snippet list
SnippetUris(snips) == {snips[i].uri : i \in 1..Len(snips)}

\* C36: in every published snapshot, every key of file_cache is the uri of
\* some snippet of that snapshot's snippet list: no full load, markdown
\* update or source update leaves or adds an entry for a uri that no current
\* snippet references.
C36_FileCacheKeysAreSnippetUris ==
  /\ DOMAIN snapshot.file_cache \subseteq SnippetUris(snapshot.code_snippets)
  /\ DOMAIN lastStored.file_cache \subseteq SnippetUris(lastStored.code_snippets)

\* a reload has published a list that no longer references code_snippets.json
\* of the workspace, whose content was cached before: its key is gone
C36_Witness ==
  /\ pc = "select"
  /\ flush.log # <<>>
  /\ Last(flush.log).op = "reload"
  /\ Last(flush.log).stored
  /\ snapshot.code_snippets = ListA
  /\ srcFile[SrcJ] = "c1"
  /\ DOMAIN snapshot.file_cache = {UriA}

\* the event that the notifier sends for a change of file p, when a
\* registration covers p: it is appended behind the events already queued
Queued(p) ==
  Covered(registered, p) =>
    /\ Len(rx) < ChanCap
    /\ Len(rx') = Len(rx) + 1
    /\ SubSeq(rx', 1, Len(rx)) = rx
    /\ \E i \in 1..Len(Last(rx')) : Last(rx')[i] = p

\* C39: no event is dropped between the notifier callback and the watch
\* loop: the channel never holds more than its capacity; a change of a file
\* that a registration covers appends its event behind the queued ones, and
\* happens only when the channel has room (the producer waits, it does not
\* discard), and so does the last touch of a covered file; the channel
\* changes in no other way than by such an append or by the loop taking the
\* oldest event, whose paths are then folded into the pending buckets.
C39_NoEventIsDropped ==
  /\ [](Len(rx) <= ChanCap)
  /\ [][/\ activeJson' # activeJson => Queued(ActivePath)
        /\ \A s \in Sessions :
             /\ sessionJson'[s] # sessionJson[s] => Queued(SessionJsonPath(SessionDir(s)))
             /\ snippetsJson'[s] # snippetsJson[s] => Queued(SnippetsPath(SessionDir(s)))
        /\ \A p \in NotePaths : mdFile'[p] # mdFile[p] => Queued(p)
        /\ \A p \in SrcPaths : srcFile'[p] # srcFile[p] => Queued(p)
        /\ (fsOps = MaxFsOps /\ fsOps' # fsOps) => Queued(SnippetsPath(SessionDir("s1")))
        /\ rx' # rx =>
             \/ /\ fsOps' = fsOps + 1
                /\ Len(rx) < ChanCap
                /\ Len(rx') = Len(rx) + 1
                /\ SubSeq(rx', 1, Len(rx)) = rx
             \/ /\ rx # <<>>
                /\ rx' = Tail(rx)
                /\ fsOps' = fsOps
                /\ Pending' = FoldEvent(Pending, Head(rx), 1, session_dir, watched_files)]_vars

\* three events were sent, active.json's first: the loop has taken and
\* classified that one, which made room for the third, and the channel is
\* full again with the second and the third in the order they were sent
C39_Witness ==
  /\ pc = "select"
  /\ fsOps = MaxFsOps + 1
  /\ flush = NoFlush
  /\ Len(rx) = ChanCap
  /\ rx[1] = <<SrcA>>
  /\ rx[2] = <<SnippetsPath(SessionDir("s1"))>>
  /\ pending_session_switch
  /\ ~pending_snippets_reload
  /\ pending_markdown_updates = {}
  /\ pending_code_updates = {}

\* C31: at every moment after the watcher has started, the session
\* directory held by the watch loop is the session_dir of the published
\* snapshot, also when active.json changed between the server's read of it
\* and the watcher's.
C31_LoopDirIsPublishedDir ==
  session_dir = snapshot.session_dir

\* C37: incremental updates agree with a full load: whenever every event has
\* been received and every pending bucket flushed, the published snapshot's
\* snippet list, markdown_cache and file_cache are what load_snapshot on the
\* loop's session directory returns at that moment.
C37_IncrementalAgreesWithFullLoad ==
  Quiescent =>
    LET full == LoadSnapshot(session_dir) IN
    full.ok =>
      /\ snapshot.code_snippets = full.snap.code_snippets
      /\ snapshot.markdown_cache = full.snap.markdown_cache
      /\ snapshot.file_cache = full.snap.file_cache

\* a flush has just run and has left nothing pending
FlushedClean ==
  /\ pc = "select"
  /\ flush.active
  /\ ~pending_session_switch
  /\ ~pending_snippets_reload
  /\ pending_markdown_updates = {}
  /\ pending_code_updates = {}

\* C40: the events of a behaviour are finitely many, and however far the
\* behaviour has gone, a flush eventually runs after which the session-switch
\* flag, the snippet-reload flag, the pending markdown set and the pending
\* source set are all empty; this holds also when the first flush after the
\* last event is a session switch that fails and keeps the other buckets.
C40_PendingEventuallyFlushed ==
  []<>FlushedClean

\* no event is left, and the flush that followed the last one was a session
\* switch that failed and kept a pending note and a pending source change
\* for the next flush
C40_Witness ==
  /\ pc = "select"
  /\ rx = <<>>
  /\ fsOps = MaxFsOps
  /\ flush.active
  /\ Len(flush.log) = 1
  /\ flush.log[1].op = "switch"
  /\ ~flush.log[1].ok
  /\ ~pending_session_switch
  /\ pending_markdown_updates = {MdPath("s1", "a")}
  /\ pending_code_updates = {SrcA}

====
